---- MODULE Spec2Model ----
\* A model of src/src/core/camera.rs: the wrapper camera structs Camera3D<f32>
\* and Camera2D<f32>, their conversions from and into the native structs, the
\* two factories, and the RaylibHandle operations that call the native library.
\*
\* A 32-bit memory word is named by an integer: for a float field the integer
\* names its bit pattern, for the projection tag it is the word read as an i32.
EXTENDS Integers, Sequences, FiniteSets, TLC

VARIABLES cams, nat, last, calls, conv

vars == <<cams, nat, last, calls, conv>>

\* ------------------------------------------------------------------ bounds

\* Number of ordinary scenes (position, target, up) the inputs are drawn from.
MaxScene == 1

\* ------------------------------------------------------------ enumerations

CAMERA_PERSPECTIVE == 0

CAMERA_ORTHOGRAPHIC == 1

I32Max == 2147483647

\* The words that are a discriminant of ffi::CameraType.
ValidTags == {CAMERA_PERSPECTIVE, CAMERA_ORTHOGRAPHIC}

\* Native type_ codes: the two discriminants and one that is neither.
NativeTypeInputs == {0, 1, 2}

\* The same, with a negative code and the two ends of the i32 range.
WideNativeTypeInputs == NativeTypeInputs \cup {0 - 1, 0 - I32Max - 1, I32Max}

CameraModes == {"CAMERA_CUSTOM", "CAMERA_FIRST_PERSON"}

\* `mode as i32`
CameraModeCode(m) ==
    CASE m = "CAMERA_CUSTOM" -> 0
      [] m = "CAMERA_FREE" -> 1
      [] m = "CAMERA_ORBITAL" -> 2
      [] m = "CAMERA_FIRST_PERSON" -> 3
      [] m = "CAMERA_THIRD_PERSON" -> 4

KeyboardKeys == {"KEY_LEFT_ALT", "KEY_LEFT_CONTROL"}

\* `key as i32`
KeyCode(k) ==
    CASE k = "KEY_A" -> 65
      [] k = "KEY_D" -> 68
      [] k = "KEY_E" -> 69
      [] k = "KEY_Q" -> 81
      [] k = "KEY_S" -> 83
      [] k = "KEY_W" -> 87
      [] k = "KEY_RIGHT" -> 262
      [] k = "KEY_LEFT" -> 263
      [] k = "KEY_DOWN" -> 264
      [] k = "KEY_UP" -> 265
      [] k = "KEY_PAGE_UP" -> 266
      [] k = "KEY_PAGE_DOWN" -> 267
      [] k = "KEY_LEFT_CONTROL" -> 341
      [] k = "KEY_LEFT_ALT" -> 342

\* front, back, right, left, up, down
MoveKeyInputs ==
    { <<"KEY_W", "KEY_S", "KEY_D", "KEY_A", "KEY_E", "KEY_Q">>,
      <<"KEY_UP", "KEY_DOWN", "KEY_RIGHT", "KEY_LEFT", "KEY_PAGE_UP", "KEY_PAGE_DOWN">> }

\* ------------------------------------------------------------------ inputs

Vec3(a, b, c) == [x |-> a, y |-> b, z |-> c]

Vec2(a, b) == [x |-> a, y |-> b]

\* The k-th sample vector: three words found in no other sample vector.
SampleVec(k) == Vec3(3 * k + 1, 3 * k + 2, 3 * k + 3)

ZeroVec == Vec3(0, 0, 0)

\* (position, target, up): ordinary scenes, and one with a degenerate up.
SceneInputs ==
    { <<SampleVec(3 * j), SampleVec(3 * j + 1), SampleVec(3 * j + 2)>> : j \in 0 .. MaxScene - 1 }
        \cup { <<SampleVec(3 * MaxScene), SampleVec(3 * MaxScene + 1), ZeroVec>> }

\* fovy in degrees: an ordinary angle and one past 180.
FovyInputs == {45, 400}

FovyInRange(f) == f > 0 /\ f < 180

\* ------------------------------------------------------------------ layout

\* nalgebra's Vector3<f32> and the native Vector3: three consecutive words.
Vector3Words(v) == <<v.x, v.y, v.z>>

Vector3OfWords(w, i) == Vec3(w[i], w[i + 1], w[i + 2])

Vector2Words(v) == <<v.x, v.y>>

Vector2OfWords(w, i) == Vec2(w[i], w[i + 1])

\* #[repr(C)] struct Camera3D<f32>: the fields in declaration order.
Camera3DWords(c) ==
    Vector3Words(c.position) \o Vector3Words(c.target) \o Vector3Words(c.up)
        \o <<c.fovy, c.type_>>

Camera3DOfWords(w) ==
    [ position |-> Vector3OfWords(w, 1),
      target |-> Vector3OfWords(w, 4),
      up |-> Vector3OfWords(w, 7),
      fovy |-> w[10],
      type_ |-> w[11] ]

\* The native struct Camera3D: position, target, up, fovy, type.
FfiCamera3DWords(v) ==
    Vector3Words(v.position) \o Vector3Words(v.target) \o Vector3Words(v.up)
        \o <<v.fovy, v.type_>>

FfiCamera3DOfWords(w) ==
    [ position |-> Vector3OfWords(w, 1),
      target |-> Vector3OfWords(w, 4),
      up |-> Vector3OfWords(w, 7),
      fovy |-> w[10],
      type_ |-> w[11] ]

\* #[repr(C)] struct Camera2D<f32>: the fields in declaration order.
Camera2DWords(c) ==
    Vector2Words(c.offset) \o Vector2Words(c.target) \o <<c.rotation, c.zoom>>

Camera2DOfWords(w) ==
    [ offset |-> Vector2OfWords(w, 1),
      target |-> Vector2OfWords(w, 3),
      rotation |-> w[5],
      zoom |-> w[6] ]

\* The native struct Camera2D: offset, target, rotation, zoom.
FfiCamera2DWords(v) ==
    Vector2Words(v.offset) \o Vector2Words(v.target) \o <<v.rotation, v.zoom>>

FfiCamera2DOfWords(w) ==
    [ offset |-> Vector2OfWords(w, 1),
      target |-> Vector2OfWords(w, 3),
      rotation |-> w[5],
      zoom |-> w[6] ]

\* ------------------------------------------------------------- conversions

\* A conversion back that rebuilds the camera with the default projection.
Camera3DFromNative_rebuilt(v) ==
    [ position |-> v.position, target |-> v.target, up |-> v.up,
      fovy |-> v.fovy, type_ |-> CAMERA_PERSPECTIVE ]

\* impl From<ffi::Camera3D> for Camera3D<T>: transmute(v).
Camera3DFromNative(v) == Camera3DOfWords(FfiCamera3DWords(v))

\* A conversion by value written as a copy that takes up for target.
Camera3DIntoNative_copyUpTwice(c) ==
    [ position |-> c.position, target |-> c.up, up |-> c.up,
      fovy |-> c.fovy, type_ |-> c.type_ ]

\* impl Into<ffi::Camera3D> for Camera3D<T>: transmute(self).
Camera3DIntoNative(c) == FfiCamera3DOfWords(Camera3DWords(c))

\* Vector3<f32> into the native Vector3, component by component.
Vector3Into(v) == [x |-> v.x, y |-> v.y, z |-> v.z]

Vector2Into(v) == [x |-> v.x, y |-> v.y]

\* A u32 is kept as its two 16-bit halves <<high, low>>: the bits of word w.
U32OfWord(w) == <<(w \div 65536) % 65536, w % 65536>>

\* `self.type_ as u32`: the discriminant of a valid tag. The cast of a tag
\* that is no discriminant of the enum is undefined behaviour: the result
\* reads as the word the tag holds (unoptimised builds, and an optimised
\* build's print of it) or as one of the two discriminants (an optimised
\* build's comparisons and branches on it).
EnumAsU32(tag) ==
    IF tag \in ValidTags
        THEN {U32OfWord(tag)}
        ELSE { U32OfWord(w) : w \in ValidTags \cup {tag} }

\* `u as i32`: the same 32 bits read as a signed integer.
U32AsI32(u) ==
    IF u[1] >= 32768 THEN (u[1] - 65536) * 65536 + u[2] ELSE u[1] * 65536 + u[2]

\* impl Into<ffi::Camera3D> for &Camera3D<T>: the field-by-field copy, where
\* t is what `self.type_ as u32` evaluated to.
Camera3DRefIntoNative(c, t) ==
    [ position |-> Vector3Into(c.position),
      target |-> Vector3Into(c.target),
      up |-> Vector3Into(c.up),
      fovy |-> c.fovy,
      type_ |-> U32AsI32(t) ]

\* impl From<ffi::Camera2D> for Camera2D<T>: transmute(v).
Camera2DFromNative(v) == Camera2DOfWords(FfiCamera2DWords(v))

\* impl Into<ffi::Camera2D> for Camera2D<T>: transmute(self).
Camera2DIntoNative(c) == FfiCamera2DOfWords(Camera2DWords(c))

\* impl Into<ffi::Camera2D> for &Camera2D<T>: the field-by-field copy.
Camera2DRefIntoNative(c) ==
    [ offset |-> Vector2Into(c.offset),
      target |-> Vector2Into(c.target),
      rotation |-> c.rotation,
      zoom |-> c.zoom ]

\* --------------------------------------------------------------- factories

\* camera_type() has returned the kind k.
Returned(k) == [status |-> "returned", kind |-> k]

\* The process has been aborted inside camera_type().
Aborted == [status |-> "aborted"]

\* Camera3D::camera_type: transmute of the tag into consts::CameraType. For a
\* tag that is a discriminant it returns that kind. For any other tag the
\* transmute is undefined behaviour: the process is aborted (the check of a
\* debug build, or control leaving the call site), or the caller sees one
\* of the two kinds, or the word itself.
camera_type(c) ==
    IF c.type_ \in ValidTags
        THEN {Returned(c.type_)}
        ELSE {Aborted} \cup { Returned(k) : k \in ValidTags \cup {c.type_} }

\* A factory that brings fovy into the range of a field of view.
perspective_clamped(position, target, up, fovy) ==
    [ position |-> position,
      target |-> target,
      up |-> up,
      fovy |-> IF fovy > 179 THEN 179 ELSE IF fovy < 1 THEN 1 ELSE fovy,
      type_ |-> CAMERA_PERSPECTIVE ]

\* Camera3D::perspective
perspective(position, target, up, fovy) ==
    [ position |-> position,
      target |-> target,
      up |-> up,
      fovy |-> fovy,
      type_ |-> CAMERA_PERSPECTIVE ]

\* A factory that forgets to set the tag.
orthographic_untagged(position, target, up, fovy) ==
    perspective(position, target, up, fovy)

\* Camera3D::orthographic
orthographic(position, target, up, fovy) ==
    [perspective(position, target, up, fovy) EXCEPT !.type_ = CAMERA_ORTHOGRAPHIC]

\* ---------------------------------------------------------- native library

\* The native camera module's own state: the mode and the control bindings.
NativeInit ==
    [ mode |-> 0,
      pan |-> 2,
      alt |-> 342,
      sz |-> 341,
      move |-> <<87, 83, 68, 65, 69, 81>> ]

NativeSetCameraMode(n, camera, mode) == [n EXCEPT !.mode = mode]

NativeSetCameraPanControl(n, key) == [n EXCEPT !.pan = key]

NativeSetCameraAltControl(n, key) == [n EXCEPT !.alt = key]

NativeSetCameraSmoothZoomControl(n, key) == [n EXCEPT !.sz = key]

NativeSetCameraMoveControls(n, front, back, right, left, up, down) ==
    [n EXCEPT !.move = <<front, back, right, left, up, down>>]

\* What UpdateCamera may leave in the struct it is given: position, target
\* and up as the input state and the mode decide, the other fields as given.
NativeUpdateCamera(n, camera) ==
    { [camera EXCEPT !.position = s[1], !.target = s[2], !.up = s[3]] : s \in SceneInputs }
        \cup {camera}

\* ------------------------------------------------------------------- state

CamIds == {1, 2}

\* The native structs a caller converts: every scene and type code, at one
\* fovy (the conversion on every fovy is covered by WideNativeCamera3DInputs).
NativeCamera3DInputs ==
    { [position |-> s[1], target |-> s[2], up |-> s[3], fovy |-> 45, type_ |-> t] :
        s \in SceneInputs, t \in NativeTypeInputs }

\* The caller's variable id now holds the camera c.
Bind(id, c) == [i \in DOMAIN cams \cup {id} |-> IF i = id THEN c ELSE cams[i]]

Call(fn, args, out) == [fn |-> fn, args |-> args, out |-> out]

Init ==
    /\ cams = [i \in {} |-> 0]
    /\ nat = NativeInit
    /\ last = [op |-> "none", cam |-> 0, args |-> <<>>, via |-> <<>>]
    /\ calls = <<>>
    /\ conv = [stage |-> "idle"]

\* -------------------------------------------------------------- operations

\* The process runs: no call has aborted it.
Alive == ~(last.op = "camera_type" /\ last.args[1].status = "aborted")

\* let cam = Camera3D::perspective(position, target, up, fovy);
CallPerspective(id, s, fovy) ==
    /\ Alive
    /\ cams' = Bind(id, perspective(s[1], s[2], s[3], fovy))
    /\ last' = [op |-> "perspective", cam |-> id, args |-> <<s[1], s[2], s[3], fovy>>, via |-> <<>>]
    /\ calls' = <<>>
    /\ UNCHANGED <<nat, conv>>

\* let cam = Camera3D::orthographic(position, target, up, fovy);
CallOrthographic(id, s, fovy) ==
    /\ Alive
    /\ cams' = Bind(id, orthographic(s[1], s[2], s[3], fovy))
    /\ last' = [op |-> "orthographic", cam |-> id, args |-> <<s[1], s[2], s[3], fovy>>, via |-> <<>>]
    /\ calls' = <<>>
    /\ UNCHANGED <<nat, conv>>

\* let cam: Camera3D<f32> = v.into();
CallFrom(id, v) ==
    /\ Alive
    /\ cams' = Bind(id, Camera3DFromNative(v))
    /\ last' = [op |-> "from", cam |-> id, args |-> <<v>>, via |-> <<"transmute">>]
    /\ calls' = <<>>
    /\ UNCHANGED <<nat, conv>>

\* let kind = cam.camera_type();
CallCameraType(id) ==
    /\ Alive
    /\ id \in DOMAIN cams
    /\ \E r \in camera_type(cams[id]) :
         last' = [op |-> "camera_type", cam |-> id, args |-> <<r>>, via |-> <<"transmute">>]
    /\ calls' = <<>>
    /\ UNCHANGED <<cams, nat, conv>>

\* A set_camera_mode that also runs the native update on the caller's camera.
set_camera_mode_updating(id, byRef, mode) ==
    /\ Alive
    /\ id \in DOMAIN cams
    /\ \E t \in EnumAsU32(cams[id].type_) :
         LET camera == IF byRef THEN Camera3DRefIntoNative(cams[id], t)
                                ELSE Camera3DIntoNative(cams[id])
         IN  /\ nat' = NativeSetCameraMode(nat, camera, CameraModeCode(mode))
             /\ calls' = <<Call("SetCameraMode", <<camera, CameraModeCode(mode)>>, <<>>)>>
             /\ \E out \in NativeUpdateCamera(nat, camera) :
                   cams' = [cams EXCEPT ![id] = Camera3DFromNative(out)]
    /\ last' = [op |-> "set_camera_mode", cam |-> id, args |-> <<byRef, mode>>,
                via |-> <<IF byRef THEN "field_copy" ELSE "transmute">>]
    /\ UNCHANGED conv

\* rl.set_camera_mode(cam, mode) hands over the camera by value,
\* rl.set_camera_mode(&cam, mode) by reference.
set_camera_mode(id, byRef, mode) ==
    /\ Alive
    /\ id \in DOMAIN cams
    /\ \E t \in EnumAsU32(cams[id].type_) :
         LET camera == IF byRef THEN Camera3DRefIntoNative(cams[id], t)
                                ELSE Camera3DIntoNative(cams[id])
         IN  /\ nat' = NativeSetCameraMode(nat, camera, CameraModeCode(mode))
             /\ calls' = <<Call("SetCameraMode", <<camera, CameraModeCode(mode)>>, <<>>)>>
    /\ last' = [op |-> "set_camera_mode", cam |-> id, args |-> <<byRef, mode>>,
                via |-> <<IF byRef THEN "field_copy" ELSE "transmute">>]
    /\ UNCHANGED <<cams, conv>>

\* An update_camera that never writes the result back.
update_camera_discarding(id) ==
    /\ Alive
    /\ id \in DOMAIN cams
    /\ LET fficam == Camera3DIntoNative(cams[id])
       IN  \E out \in NativeUpdateCamera(nat, fficam) :
             calls' = <<Call("UpdateCamera", <<fficam>>, <<out>>)>>
    /\ last' = [op |-> "update_camera", cam |-> id, args |-> <<>>,
                via |-> <<"transmute", "transmute">>]
    /\ UNCHANGED <<cams, nat, conv>>

\* An update_camera that converts the borrowed camera field by field.
update_camera_byRef(id) ==
    /\ Alive
    /\ id \in DOMAIN cams
    /\ \E t \in EnumAsU32(cams[id].type_) :
         LET fficam == Camera3DRefIntoNative(cams[id], t)
         IN  \E out \in NativeUpdateCamera(nat, fficam) :
               /\ cams' = [cams EXCEPT ![id] = Camera3DFromNative(out)]
               /\ calls' = <<Call("UpdateCamera", <<fficam>>, <<out>>)>>
    /\ last' = [op |-> "update_camera", cam |-> id, args |-> <<>>,
                via |-> <<"field_copy", "transmute">>]
    /\ UNCHANGED <<nat, conv>>

\* rl.update_camera(&mut cam)
update_camera(id) ==
    /\ Alive
    /\ id \in DOMAIN cams
    /\ LET fficam == Camera3DIntoNative(cams[id])
       IN  \E out \in NativeUpdateCamera(nat, fficam) :
             /\ cams' = [cams EXCEPT ![id] = Camera3DFromNative(out)]
             /\ calls' = <<Call("UpdateCamera", <<fficam>>, <<out>>)>>
    /\ last' = [op |-> "update_camera", cam |-> id, args |-> <<>>,
                via |-> <<"transmute", "transmute">>]
    /\ UNCHANGED <<nat, conv>>

set_camera_pan_control(pan_key) ==
    /\ Alive
    /\ nat' = NativeSetCameraPanControl(nat, KeyCode(pan_key))
    /\ calls' = <<Call("SetCameraPanControl", <<KeyCode(pan_key)>>, <<>>)>>
    /\ last' = [op |-> "set_camera_pan_control", cam |-> 0, args |-> <<pan_key>>, via |-> <<>>]
    /\ UNCHANGED <<cams, conv>>

set_camera_alt_control(alt_key) ==
    /\ Alive
    /\ nat' = NativeSetCameraAltControl(nat, KeyCode(alt_key))
    /\ calls' = <<Call("SetCameraAltControl", <<KeyCode(alt_key)>>, <<>>)>>
    /\ last' = [op |-> "set_camera_alt_control", cam |-> 0, args |-> <<alt_key>>, via |-> <<>>]
    /\ UNCHANGED <<cams, conv>>

set_camera_smooth_zoom_control(sz_key) ==
    /\ Alive
    /\ nat' = NativeSetCameraSmoothZoomControl(nat, KeyCode(sz_key))
    /\ calls' = <<Call("SetCameraSmoothZoomControl", <<KeyCode(sz_key)>>, <<>>)>>
    /\ last' = [op |-> "set_camera_smooth_zoom_control", cam |-> 0, args |-> <<sz_key>>, via |-> <<>>]
    /\ UNCHANGED <<cams, conv>>

\* A set_camera_move_controls that passes left before right.
set_camera_move_controls_swapped(front_key, back_key, right_key, left_key, up_key, down_key) ==
    /\ Alive
    /\ nat' = NativeSetCameraMoveControls(nat, KeyCode(front_key), KeyCode(back_key),
                  KeyCode(left_key), KeyCode(right_key), KeyCode(up_key), KeyCode(down_key))
    /\ calls' = <<Call("SetCameraMoveControls",
                       <<KeyCode(front_key), KeyCode(back_key), KeyCode(left_key),
                         KeyCode(right_key), KeyCode(up_key), KeyCode(down_key)>>, <<>>)>>
    /\ last' = [op |-> "set_camera_move_controls", cam |-> 0,
                args |-> <<front_key, back_key, right_key, left_key, up_key, down_key>>,
                via |-> <<>>]
    /\ UNCHANGED <<cams, conv>>

set_camera_move_controls(front_key, back_key, right_key, left_key, up_key, down_key) ==
    /\ Alive
    /\ nat' = NativeSetCameraMoveControls(nat, KeyCode(front_key), KeyCode(back_key),
                  KeyCode(right_key), KeyCode(left_key), KeyCode(up_key), KeyCode(down_key))
    /\ calls' = <<Call("SetCameraMoveControls",
                       <<KeyCode(front_key), KeyCode(back_key), KeyCode(right_key),
                         KeyCode(left_key), KeyCode(up_key), KeyCode(down_key)>>, <<>>)>>
    /\ last' = [op |-> "set_camera_move_controls", cam |-> 0,
                args |-> <<front_key, back_key, right_key, left_key, up_key, down_key>>,
                via |-> <<>>]
    /\ UNCHANGED <<cams, conv>>

\* One call of an operation, on a camera among ids where it takes one.
Step(ids) ==
    \/ \E id \in ids, s \in SceneInputs, f \in FovyInputs : CallPerspective(id, s, f)
    \/ \E id \in ids, s \in SceneInputs, f \in FovyInputs : CallOrthographic(id, s, f)
    \/ \E id \in ids, v \in NativeCamera3DInputs : CallFrom(id, v)
    \/ \E id \in ids : CallCameraType(id)
    \/ \E id \in ids, byRef \in BOOLEAN, m \in CameraModes : set_camera_mode(id, byRef, m)
    \/ \E id \in ids : update_camera(id)
    \/ \E k \in KeyboardKeys : set_camera_pan_control(k)
    \/ \E k \in KeyboardKeys : set_camera_alt_control(k)
    \/ \E k \in KeyboardKeys : set_camera_smooth_zoom_control(k)
    \/ \E m \in MoveKeyInputs : set_camera_move_controls(m[1], m[2], m[3], m[4], m[5], m[6])

\* A caller with two cameras.
Next == Step(CamIds)

Spec == Init /\ [][Next]_vars

\* A caller with one camera.
NextOne == Step({1})

SpecOne == Init /\ [][NextOne]_vars

\* ------------------------------------------------- conversions, on their own

WideFovyInputs == FovyInputs \cup {0 - 30, 0}

WideNativeCamera3DInputs ==
    { [position |-> s[1], target |-> s[2], up |-> s[3], fovy |-> f, type_ |-> t] :
        s \in SceneInputs, f \in WideFovyInputs, t \in WideNativeTypeInputs }

\* The wrapper cameras safe code can hold: a factory's, or one made from a
\* native struct.
Camera3DInputs ==
    { perspective(s[1], s[2], s[3], f) : s \in SceneInputs, f \in WideFovyInputs }
        \cup { orthographic(s[1], s[2], s[3], f) : s \in SceneInputs, f \in WideFovyInputs }
        \cup { Camera3DFromNative(v) : v \in WideNativeCamera3DInputs }

Vec2Inputs == { Vec2(4 * j + 1, 4 * j + 2) : j \in 0 .. MaxScene } \cup { Vec2(0, 0) }

\* Camera2D<f32> has public fields only: every combination of words is one.
Camera2DInputs ==
    { [offset |-> o, target |-> Vec2(o.x + 2, o.y + 2), rotation |-> r, zoom |-> z] :
        o \in Vec2Inputs, r \in {0, 90, 0 - 720}, z \in {0, 1, 0 - 3} }

NativeCamera2DInputs ==
    { [offset |-> o, target |-> Vec2(o.x + 2, o.y + 2), rotation |-> r, zoom |-> z] :
        o \in Vec2Inputs, r \in {0, 90, 0 - 720}, z \in {0, 1, 0 - 3} }

ConvInputs ==
    { [stage |-> "input", kind |-> "Camera3D", val |-> c] : c \in Camera3DInputs }
        \cup { [stage |-> "input", kind |-> "ffi::Camera3D", val |-> v] : v \in WideNativeCamera3DInputs }
        \cup { [stage |-> "input", kind |-> "Camera2D", val |-> c] : c \in Camera2DInputs }
        \cup { [stage |-> "input", kind |-> "ffi::Camera2D", val |-> v] : v \in NativeCamera2DInputs }

InitConv ==
    /\ cams = [i \in {} |-> 0]
    /\ nat = NativeInit
    /\ last = [op |-> "none", cam |-> 0, args |-> <<>>, via |-> <<>>]
    /\ calls = <<>>
    /\ conv \in ConvInputs

\* let a: ffi::Camera3D = c.into(); let b: ffi::Camera3D = (&c).into();
\* let back: Camera3D<f32> = a.into();
ConvertCamera3D ==
    /\ conv.stage = "input" /\ conv.kind = "Camera3D"
    /\ \E t \in EnumAsU32(conv.val.type_) :
         conv' = [ stage |-> "done", kind |-> conv.kind, val |-> conv.val,
                   byValue |-> Camera3DIntoNative(conv.val),
                   byRef |-> Camera3DRefIntoNative(conv.val, t),
                   back |-> Camera3DFromNative(Camera3DIntoNative(conv.val)) ]
    /\ UNCHANGED <<cams, nat, last, calls>>

\* let c: Camera3D<f32> = v.into(); let back: ffi::Camera3D = c.into();
ConvertNative3D ==
    /\ conv.stage = "input" /\ conv.kind = "ffi::Camera3D"
    /\ conv' = [ stage |-> "done", kind |-> conv.kind, val |-> conv.val,
                 wrapper |-> Camera3DFromNative(conv.val),
                 back |-> Camera3DIntoNative(Camera3DFromNative(conv.val)) ]
    /\ UNCHANGED <<cams, nat, last, calls>>

\* The same for Camera2D.
ConvertCamera2D ==
    /\ conv.stage = "input" /\ conv.kind = "Camera2D"
    /\ conv' = [ stage |-> "done", kind |-> conv.kind, val |-> conv.val,
                 byValue |-> Camera2DIntoNative(conv.val),
                 byRef |-> Camera2DRefIntoNative(conv.val),
                 back |-> Camera2DFromNative(Camera2DIntoNative(conv.val)) ]
    /\ UNCHANGED <<cams, nat, last, calls>>

ConvertNative2D ==
    /\ conv.stage = "input" /\ conv.kind = "ffi::Camera2D"
    /\ conv' = [ stage |-> "done", kind |-> conv.kind, val |-> conv.val,
                 wrapper |-> Camera2DFromNative(conv.val),
                 back |-> Camera2DIntoNative(Camera2DFromNative(conv.val)) ]
    /\ UNCHANGED <<cams, nat, last, calls>>

NextConv == ConvertCamera3D \/ ConvertNative3D \/ ConvertCamera2D \/ ConvertNative2D

SpecConv == InitConv /\ [][NextConv]_vars

\* ------------------------------------------------------------------ claims

SameCamera3DFields(a, b) ==
    /\ a.position = b.position
    /\ a.target = b.target
    /\ a.up = b.up
    /\ a.fovy = b.fovy
    /\ a.type_ = b.type_

SameCamera2DFields(a, b) ==
    /\ a.offset = b.offset
    /\ a.target = b.target
    /\ a.rotation = b.rotation
    /\ a.zoom = b.zoom

\* C1: with f32 as the numeric type a round trip keeps every field. A
\* Camera3D converted into the native struct and back has the position,
\* target, up, fovy and projection tag it had; a Camera2D the offset, target,
\* rotation and zoom it had; a native struct converted into the wrapper and
\* back is the struct it was.
RoundTripKeepsEveryField ==
    conv.stage = "done" =>
        /\ conv.kind = "Camera3D" =>
              /\ conv.back.position = conv.val.position
              /\ conv.back.target = conv.val.target
              /\ conv.back.up = conv.val.up
              /\ conv.back.fovy = conv.val.fovy
              /\ conv.back.type_ = conv.val.type_
              /\ camera_type(conv.back) = camera_type(conv.val)
        /\ conv.kind = "Camera2D" => SameCamera2DFields(conv.back, conv.val)
        /\ conv.kind = "ffi::Camera3D" => SameCamera3DFields(conv.back, conv.val)
        /\ conv.kind = "ffi::Camera2D" => SameCamera2DFields(conv.back, conv.val)

\* An orthographic camera with a degenerate up and a fovy past 180 has made
\* the round trip.
RoundTripDone ==
    /\ conv.stage = "done"
    /\ conv.kind = "Camera3D"
    /\ camera_type(conv.val) = {Returned(CAMERA_ORTHOGRAPHIC)}
    /\ conv.val.up = ZeroVec
    /\ conv.val.fovy = 400
    /\ conv.byValue.type_ = CAMERA_ORTHOGRAPHIC

\* C9: the conversion by value and the conversion by reference of the same
\* wrapper camera give native structs with equal fields, for Camera3D<f32>
\* (position, target, up, fovy, type_) and for Camera2D<f32> (offset, target,
\* rotation, zoom).
ByValueAgreesWithByReference ==
    conv.stage = "done" =>
        /\ conv.kind = "Camera3D" => SameCamera3DFields(conv.byValue, conv.byRef)
        /\ conv.kind = "Camera2D" => SameCamera2DFields(conv.byValue, conv.byRef)

\* C2: perspective returns a camera tagged perspective and orthographic one
\* tagged orthographic; position, target, up and fovy of the result are the
\* arguments, so the two results for the same arguments differ in the tag
\* alone.
FactoriesTagAndKeepArguments ==
    last.op \in {"perspective", "orthographic"} =>
        LET c == cams[last.cam]
            p == perspective(last.args[1], last.args[2], last.args[3], last.args[4])
            o == orthographic(last.args[1], last.args[2], last.args[3], last.args[4])
        IN  /\ c.position = last.args[1]
            /\ c.target = last.args[2]
            /\ c.up = last.args[3]
            /\ c.fovy = last.args[4]
            /\ last.op = "perspective" => camera_type(c) = {Returned(CAMERA_PERSPECTIVE)}
            /\ last.op = "orthographic" => camera_type(c) = {Returned(CAMERA_ORTHOGRAPHIC)}
            /\ p.position = o.position /\ p.target = o.target
            /\ p.up = o.up /\ p.fovy = o.fovy
            /\ camera_type(p) # camera_type(o)

\* orthographic has just returned a camera.
OrthographicReturned ==
    /\ last.op = "orthographic"
    /\ cams[last.cam].up = ZeroVec
    /\ cams[last.cam].fovy = 45

\* C8: the projection tag of every wrapper camera is one of the two defined
\* kinds, so every camera_type() call returns, with a defined CameraType, whichever way the
\* camera was made and however often it was updated.
TagAlwaysDefined ==
    /\ \A id \in DOMAIN cams : cams[id].type_ \in ValidTags
    /\ last.op = "camera_type" =>
          /\ last.args[1].status = "returned"
          /\ last.args[1].kind \in ValidTags

HandleOps ==
    { "set_camera_mode", "update_camera", "set_camera_pan_control",
      "set_camera_alt_control", "set_camera_smooth_zoom_control",
      "set_camera_move_controls" }

\* C3: no update changes the projection tag. Every update_camera call, and
\* every set_camera_mode and key-binding call it is interleaved with, leaves
\* camera_type() of every camera what it was, so a camera built perspective
\* (orthographic) still reports perspective (orthographic) after any number of
\* them.
UpdateKeepsProjection ==
    [][ last'.op \in HandleOps =>
            /\ DOMAIN cams' = DOMAIN cams
            /\ \A id \in DOMAIN cams :
                  /\ cams'[id].type_ = cams[id].type_
                  /\ camera_type(cams'[id]) = camera_type(cams[id])
                  /\ cams[id].type_ \in ValidTags =>
                        camera_type(cams'[id]) = {Returned(cams[id].type_)} ]_vars

\* The native routine has moved an orthographic camera.
OrthographicCameraMoved ==
    /\ last.op = "update_camera"
    /\ camera_type(cams[last.cam]) = {Returned(CAMERA_ORTHOGRAPHIC)}
    /\ calls[1].out[1].position # calls[1].args[1].position

\* C4: update_camera hands the camera's fields to UpdateCamera as they are
\* before the call and copies the struct back as the native routine left
\* it: every field of the struct passed is the camera's field, every field of
\* the camera afterwards is the struct's field, and a field the routine left
\* alone has its value from before the call.
UpdateHandsOverAndCopiesBack ==
    [][ last'.op = "update_camera" =>
            /\ Len(calls') = 1
            /\ calls'[1].fn = "UpdateCamera"
            /\ LET before == cams[last'.cam]
                   passed == calls'[1].args[1]
                   left == calls'[1].out[1]
                   after == cams'[last'.cam]
               IN  /\ SameCamera3DFields(passed, before)
                   /\ SameCamera3DFields(after, left)
                   /\ left.position = passed.position => after.position = before.position
                   /\ left.target = passed.target => after.target = before.target
                   /\ left.up = passed.up => after.up = before.up
                   /\ left.fovy = passed.fovy => after.fovy = before.fovy
                   /\ left.type_ = passed.type_ => after.type_ = before.type_ ]_vars

\* update_camera has returned a camera the native routine gave a new position
\* and whose fovy it left alone.
UpdateMovedCamera ==
    /\ last.op = "update_camera"
    /\ calls[1].out[1].position # calls[1].args[1].position
    /\ calls[1].out[1].fovy = calls[1].args[1].fovy
    /\ cams[last.cam].position = calls[1].out[1].position

\* C5: the control-binding functions forward their arguments. Each of the
\* three single-key functions makes one native call with the key's integer
\* code, set_camera_move_controls one call with the six codes in the order
\* front, back, right, left, up, down, set_camera_mode one call with the
\* camera's native form and the mode's integer code; and each native binding
\* is what the most recent call for it passed, no other operation touching it.
ControlsAreForwarded ==
    [][ /\ last'.op = "set_camera_pan_control" =>
              calls' = <<Call("SetCameraPanControl", <<KeyCode(last'.args[1])>>, <<>>)>>
        /\ last'.op = "set_camera_alt_control" =>
              calls' = <<Call("SetCameraAltControl", <<KeyCode(last'.args[1])>>, <<>>)>>
        /\ last'.op = "set_camera_smooth_zoom_control" =>
              calls' = <<Call("SetCameraSmoothZoomControl", <<KeyCode(last'.args[1])>>, <<>>)>>
        /\ last'.op = "set_camera_move_controls" =>
              calls' = <<Call("SetCameraMoveControls",
                              [i \in 1 .. 6 |-> KeyCode(last'.args[i])], <<>>)>>
        /\ last'.op = "set_camera_mode" =>
              /\ Len(calls') = 1
              /\ calls'[1].fn = "SetCameraMode"
              /\ Len(calls'[1].args) = 2
              /\ calls'[1].args[2] = CameraModeCode(last'.args[2])
              /\ LET c == cams[last'.cam]
                     given == calls'[1].args[1]
                 IN  /\ given.position = c.position
                     /\ given.target = c.target
                     /\ given.up = c.up
                     /\ given.fovy = c.fovy
                     /\ (c.type_ \in ValidTags \/ ~last'.args[1]) => given.type_ = c.type_
        /\ nat'.pan = IF last'.op = "set_camera_pan_control"
                        THEN KeyCode(last'.args[1]) ELSE nat.pan
        /\ nat'.alt = IF last'.op = "set_camera_alt_control"
                        THEN KeyCode(last'.args[1]) ELSE nat.alt
        /\ nat'.sz = IF last'.op = "set_camera_smooth_zoom_control"
                        THEN KeyCode(last'.args[1]) ELSE nat.sz
        /\ nat'.move = IF last'.op = "set_camera_move_controls"
                        THEN [i \in 1 .. 6 |-> KeyCode(last'.args[i])] ELSE nat.move
        /\ nat'.mode = IF last'.op = "set_camera_mode"
                        THEN CameraModeCode(last'.args[2]) ELSE nat.mode ]_vars

\* Every control has been bound away from its default, the move keys last.
ControlsRebound ==
    /\ last.op = "set_camera_move_controls"
    /\ nat.move = <<KeyCode("KEY_UP"), KeyCode("KEY_DOWN"), KeyCode("KEY_RIGHT"),
                    KeyCode("KEY_LEFT"), KeyCode("KEY_PAGE_UP"), KeyCode("KEY_PAGE_DOWN")>>
    /\ nat.pan = KeyCode("KEY_LEFT_CONTROL")
    /\ nat.alt = KeyCode("KEY_LEFT_CONTROL")
    /\ nat.sz = KeyCode("KEY_LEFT_ALT")
    /\ nat.mode = CameraModeCode("CAMERA_FIRST_PERSON")

\* C6: no operation validates its inputs or reports an error. The factories
\* take every fovy and every position, target and up, a fovy out of range and
\* a degenerate up among them, and store them as given; and each of the
\* factories, the conversion, set_camera_mode, update_camera and the
\* key-binding functions can be called with every input while the process
\* runs, and returns with the process still running.
NothingIsValidated ==
    /\ last.op \in HandleOps \cup {"perspective", "orthographic", "from"} => Alive
    /\ last.op \in {"perspective", "orthographic"} =>
          /\ cams[last.cam].position = last.args[1]
          /\ cams[last.cam].target = last.args[2]
          /\ cams[last.cam].up = last.args[3]
          /\ cams[last.cam].fovy = last.args[4]
    /\ Alive => \A id \in CamIds :
          /\ \A s \in SceneInputs, f \in FovyInputs :
                /\ ENABLED CallPerspective(id, s, f)
                /\ ENABLED CallOrthographic(id, s, f)
          /\ \A v \in NativeCamera3DInputs : ENABLED CallFrom(id, v)
    /\ Alive => \A id \in DOMAIN cams :
          /\ ENABLED update_camera(id)
          /\ \A byRef \in BOOLEAN, m \in CameraModes : ENABLED set_camera_mode(id, byRef, m)
    /\ Alive => \A k \in KeyboardKeys :
          /\ ENABLED set_camera_pan_control(k)
          /\ ENABLED set_camera_alt_control(k)
          /\ ENABLED set_camera_smooth_zoom_control(k)
    /\ Alive => \A m \in MoveKeyInputs :
          ENABLED set_camera_move_controls(m[1], m[2], m[3], m[4], m[5], m[6])

\* A factory has stored a fovy past 180 and a degenerate up.
OutOfRangeArgumentsStored ==
    /\ last.op = "perspective"
    /\ ~FovyInRange(last.args[4])
    /\ last.args[3] = ZeroVec
    /\ cams[last.cam].fovy = 400
    /\ cams[last.cam].up = ZeroVec

\* C7, as the claim states it: native to wrapper is a reinterpretation of
\* memory and wrapper to native the field-by-field copy, and the conversion
\* from the wrapper into the native struct that update_camera and
\* set_camera_mode apply to a camera is that field-by-field copy.
HandleConvertsFieldByField ==
    /\ last.op = "from" => last.via = <<"transmute">>
    /\ last.op \in {"update_camera", "set_camera_mode"} => last.via[1] = "field_copy"

\* C7, amended: native to wrapper is a reinterpretation of the words; wrapper
\* to native is a reinterpretation too when the camera is converted by value
\* and the field-by-field copy only when it is converted by reference.
\* update_camera reinterprets in both directions, so the words of the camera,
\* a tag that is no discriminant included, reach the native routine and come
\* back unchanged by the wrapper; set_camera_mode applies the conversion that
\* goes with how the caller passes the camera.
ConversionsAsDispatched ==
    [][ /\ last'.op = "from" =>
              /\ last'.via = <<"transmute">>
              /\ Camera3DWords(cams'[last'.cam]) = FfiCamera3DWords(last'.args[1])
        /\ last'.op = "update_camera" =>
              /\ last'.via = <<"transmute", "transmute">>
              /\ FfiCamera3DWords(calls'[1].args[1]) = Camera3DWords(cams[last'.cam])
              /\ Camera3DWords(cams'[last'.cam]) = FfiCamera3DWords(calls'[1].out[1])
        /\ last'.op = "set_camera_mode" =>
              /\ last'.via = <<IF last'.args[1] THEN "field_copy" ELSE "transmute">>
              /\ ~last'.args[1] =>
                    FfiCamera3DWords(calls'[1].args[1]) = Camera3DWords(cams[last'.cam]) ]_vars

\* update_camera has run on a camera whose tag is no discriminant.
UpdatedUndefinedTag ==
    /\ last.op = "update_camera"
    /\ cams[last.cam].type_ \notin ValidTags
    /\ calls[1].args[1].type_ \notin ValidTags

\* C10: update_camera is the only operation that changes a wrapper camera,
\* and it changes the camera passed to it alone: set_camera_mode and the four
\* key-binding functions leave every field of every camera as it was, and
\* update_camera(c) leaves every camera but c as it was.
OnlyUpdateChangesItsCamera ==
    [][ /\ last'.op \in (HandleOps \ {"update_camera"}) \cup {"camera_type"} => cams' = cams
        /\ last'.op = "update_camera" =>
              /\ DOMAIN cams' = DOMAIN cams
              /\ \A j \in DOMAIN cams \ {last'.cam} : cams'[j] = cams[j] ]_vars

\* update_camera has moved one of two cameras.
UpdatedOneOfTwo ==
    /\ last.op = "update_camera"
    /\ DOMAIN cams = CamIds
    /\ calls[1].out[1] # calls[1].args[1]
    /\ \E j \in CamIds \ {last.cam} : cams[j] # cams[last.cam]

====
